---- MODULE Spec2Model ----
(***************************************************************************)
(* civilbuddy: extraction of promotional parent titles from civil-service  *)
(* title specifications.                                                   *)
(*                                                                         *)
(*   src/scrape_specs.py           extract_promotional_from_html,          *)
(*                                 run_scraper      (the "page" variant)   *)
(*   src/scripts/extract_specs.py  extract_spec_info, main                 *)
(*                                                  (the "doc" variant)    *)
(*                                                                         *)
(* A Python str is a sequence of one-character strings; the regular        *)
(* expressions of the source are operators that scan such a sequence the   *)
(* way the re module does (leftmost match, alternatives in order, lazy and *)
(* greedy quantifiers).                                                    *)
(***************************************************************************)
EXTENDS Integers, Sequences, FiniteSets, TLC

(***************************************************************************)
(* Characters                                                              *)
(***************************************************************************)
LowerSet ==
    {"a", "b", "c", "d", "e", "f", "g", "h", "i", "j", "k", "l", "m",
     "n", "o", "p", "q", "r", "s", "t", "u", "v", "w", "x", "y", "z"}

UpperSet ==
    {"A", "B", "C", "D", "E", "F", "G", "H", "I", "J", "K", "L", "M",
     "N", "O", "P", "Q", "R", "S", "T", "U", "V", "W", "X", "Y", "Z"}

DigitSet == {"0", "1", "2", "3", "4", "5", "6", "7", "8", "9"}

\* the uppercase of each lowercase letter
UpperOf ==
    ("a" :> "A") @@ ("b" :> "B") @@ ("c" :> "C") @@ ("d" :> "D") @@ ("e" :> "E") @@
    ("f" :> "F") @@ ("g" :> "G") @@ ("h" :> "H") @@ ("i" :> "I") @@ ("j" :> "J") @@
    ("k" :> "K") @@ ("l" :> "L") @@ ("m" :> "M") @@ ("n" :> "N") @@ ("o" :> "O") @@
    ("p" :> "P") @@ ("q" :> "Q") @@ ("r" :> "R") @@ ("s" :> "S") @@ ("t" :> "T") @@
    ("u" :> "U") @@ ("v" :> "V") @@ ("w" :> "W") @@ ("x" :> "X") @@ ("y" :> "Y") @@
    ("z" :> "Z")

\* str.upper() on one character; re.IGNORECASE compares through it
ToUpper(c) == IF c \in LowerSet THEN UpperOf[c] ELSE c

\* str.upper()
Upper(s) == [i \in 1..Len(s) |-> ToUpper(s[i])]

\* str.isupper() on one character
IsUpper(c) == c \in UpperSet

\* \s of the re module, and the characters str.strip() removes
IsSpace(c) == c \in {" ", "\n", "\t", "\r", "\f"}

\* \d
IsDigit(c) == c \in DigitSet

\* \w, which decides \b
IsWord(c) == c \in LowerSet \/ c \in UpperSet \/ c \in DigitSet \/ c = "_"

\* \b before position i (1-based) of s
WordBoundary(s, i) ==
    ((i > 1 /\ i - 1 <= Len(s)) /\ IsWord(s[i - 1]))
        # ((i >= 1 /\ i <= Len(s)) /\ IsWord(s[i]))

\* $ without re.MULTILINE before position i: the end, or the last newline
AtDollar(s, i) == i = Len(s) + 1 \/ (i = Len(s) /\ s[i] = "\n")

\* s[i:] with 1-based positions
From(s, i) == SubSeq(s, i, Len(s))

\* The one element of a set that has one.  The({e(x) : x \in {d}}) is
\* "e(x) where x = d": a local of the Python code bound where it is
\* assigned, so that d is computed once however often e reads x.
The(S) == CHOOSE x \in S : TRUE

\* the leftmost of a non-empty set of positions
Leftmost(ps) == CHOOSE p \in ps : \A q \in ps : p <= q

\* the leftmost of a set of positions, 0 when it is empty
LeftmostOrZero(ps) == IF ps = {} THEN 0 ELSE Leftmost(ps)

\* a literal of a pattern compiled with re.IGNORECASE, at position i
MatchesAtIgnoreCase(lit, s, i) ==
    /\ i >= 1
    /\ i + Len(lit) - 1 <= Len(s)
    /\ \A k \in 1..Len(lit) : ToUpper(s[i + k - 1]) = ToUpper(lit[k])

\* str.startswith
StartsWith(s, prefix) ==
    /\ Len(prefix) <= Len(s)
    /\ \A k \in 1..Len(prefix) : s[k] = prefix[k]

\* x in s, for strings
Contains(s, x) ==
    \E i \in 1..(Len(s) - Len(x) + 1) :
        \A k \in 1..Len(x) : s[i + k - 1] = x[k]

RECURSIVE SkipSpaces(_, _)
\* \s* from position i: the position after the whitespace run
SkipSpaces(s, i) ==
    IF i <= Len(s) /\ IsSpace(s[i]) THEN SkipSpaces(s, i + 1) ELSE i

RECURSIVE LastNonSpace(_, _)
LastNonSpace(s, i) ==
    IF i >= 1 /\ IsSpace(s[i]) THEN LastNonSpace(s, i - 1) ELSE i

\* str.strip()
Strip(s) == SubSeq(s, SkipSpaces(s, 1), LastNonSpace(s, Len(s)))

\* str.replace('\n', ' ')
ReplaceNewlines(s) == [i \in 1..Len(s) |-> IF s[i] = "\n" THEN " " ELSE s[i]]

(***************************************************************************)
(* re.sub('<[^<]+?>', '', html_content)                                    *)
(***************************************************************************)
\* <[^<]+?> at position i: the position of the closing '>', the nearest
\* one that has at least one character, none of them '<', between it and
\* the '<' at i; 0 when the pattern does not match at i
TagEnd(s, i) ==
    IF i <= Len(s) /\ s[i] = "<"
    THEN LeftmostOrZero({j \in (i + 2)..Len(s) :
                            s[j] = ">" /\ \A k \in (i + 1)..(j - 1) : s[k] # "<"})
    ELSE 0

\* the position where the leftmost match at or after i begins, 0 when
\* there is none
NextTag(s, i) == LeftmostOrZero({p \in i..Len(s) : TagEnd(s, p) # 0})

RECURSIVE StripTags(_, _)
\* the text from position i with every match removed, matches found left
\* to right
StripTags(s, i) ==
    The({IF p = 0 THEN From(s, i)
         ELSE SubSeq(s, i, p - 1) \o The({StripTags(s, e + 1) : e \in {TagEnd(s, p)}}) :
         p \in {NextTag(s, i)}})

(***************************************************************************)
(* The promotional section:                                                *)
(*   re.search(r'PROMOTIONAL(.*?)(?:NECESSARY SPECIAL|...)', text,         *)
(*             re.IGNORECASE | re.DOTALL)                                  *)
(***************************************************************************)
PROMOTIONAL == <<"P", "R", "O", "M", "O", "T", "I", "O", "N", "A", "L">>

NECESSARY_SPECIAL ==
    <<"N", "E", "C", "E", "S", "S", "A", "R", "Y", " ",
      "S", "P", "E", "C", "I", "A", "L">>

SUFFOLK_COUNTY ==
    <<"S", "U", "F", "F", "O", "L", "K", " ", "C", "O", "U", "N", "T", "Y">>

REVISION_DATE ==
    <<"R", "E", "V", "I", "S", "I", "O", "N", " ", "D", "A", "T", "E">>

Competitive == <<"C", "o", "m", "p", "e", "t", "i", "t", "i", "v", "e">>

Full_Performance ==
    <<"F", "u", "l", "l", " ",
      "P", "e", "r", "f", "o", "r", "m", "a", "n", "c", "e">>

\* the alternatives of the terminator group, in the order of the pattern;
\* "rev" is R\s?\d
PageTerminators ==
    << [kind |-> "lit", lit |-> NECESSARY_SPECIAL],
       [kind |-> "lit", lit |-> SUFFOLK_COUNTY],
       [kind |-> "lit", lit |-> REVISION_DATE],
       [kind |-> "rev", lit |-> <<"R">>],
       [kind |-> "lit", lit |-> Competitive] >>

DocTerminators ==
    << [kind |-> "lit", lit |-> NECESSARY_SPECIAL],
       [kind |-> "lit", lit |-> SUFFOLK_COUNTY],
       [kind |-> "lit", lit |-> REVISION_DATE],
       [kind |-> "rev", lit |-> <<"R">>],
       [kind |-> "lit", lit |-> Competitive],
       [kind |-> "lit", lit |-> Full_Performance] >>

Terminators(variant) ==
    IF variant = "page" THEN PageTerminators ELSE DocTerminators

\* R\s?\d at position j, case-insensitively
RevisionCodeAt(s, j) ==
    /\ j >= 1
    /\ j <= Len(s)
    /\ ToUpper(s[j]) = "R"
    /\ \/ j + 2 <= Len(s) /\ IsSpace(s[j + 1]) /\ IsDigit(s[j + 2])
       \/ j + 1 <= Len(s) /\ IsDigit(s[j + 1])

\* one alternative of the terminator group at position j
AltMatchesAt(alt, s, j) ==
    IF alt.kind = "rev" THEN RevisionCodeAt(s, j)
    ELSE MatchesAtIgnoreCase(alt.lit, s, j)

\* the terminator group at position j
TerminatorAt(terms, s, j) ==
    \E k \in 1..Len(terms) : AltMatchesAt(terms[k], s, j)

\* A search whose section runs to the end of the text when no terminator
\* follows: C3 does not hold of it.
LazyEndOrEndOfText(terms, s, j) ==
    The({IF p = 0 THEN Len(s) + 1 ELSE p :
         p \in {LeftmostOrZero({q \in j..Len(s) : TerminatorAt(terms, s, q)})}})

\* A search that prefers the alternative standing first in the pattern over
\* the occurrence standing first in the text: C4 does not hold of it.
LazyEndByListOrder(terms, s, j) ==
    The({IF ks = {} THEN 0
         ELSE LeftmostOrZero({p \in j..Len(s) :
                                 AltMatchesAt(terms[Leftmost(ks)], s, p)}) :
         ks \in {{k \in 1..Len(terms) :
                     \E p \in j..Len(s) : AltMatchesAt(terms[k], s, p)}}})

\* (.*?) from position j: the first position at or after j where the
\* terminator group matches, 0 when it matches nowhere
LazyEnd(terms, s, j) ==
    LeftmostOrZero({p \in j..Len(s) : TerminatorAt(terms, s, p)})

\* the start of the leftmost match of the whole pattern, 0 when it matches
\* nowhere
PromotionalStart(terms, s) ==
    LeftmostOrZero({i \in 1..Len(s) :
                       /\ MatchesAtIgnoreCase(PROMOTIONAL, s, i)
                       /\ LazyEnd(terms, s, i + Len(PROMOTIONAL)) # 0})

\* re.search: the match object, group(1) in promo_part
SearchPromotional(terms, s) ==
    The({IF i = 0 THEN [match |-> FALSE, promo_part |-> <<>>]
         ELSE [match |-> TRUE,
               promo_part |->
                   SubSeq(s, i + Len(PROMOTIONAL),
                          LazyEnd(terms, s, i + Len(PROMOTIONAL)) - 1)] :
         i \in {PromotionalStart(terms, s)}})

(***************************************************************************)
(* The introducers:                                                        *)
(*   re.finditer(r'\b(as\s+an?|as\s+a\(n\))\s*:?\s*', promo_part,          *)
(*               re.IGNORECASE)                                            *)
(***************************************************************************)
\* as\s+a at position i: the position after it, 0 when it does not match
AsAEnd(s, i) ==
    IF /\ i + 1 <= Len(s)
       /\ ToUpper(s[i]) = "A"
       /\ ToUpper(s[i + 1]) = "S"
    THEN The({IF a > i + 2 /\ a <= Len(s) /\ ToUpper(s[a]) = "A"
              THEN a + 1 ELSE 0 :
              a \in {SkipSpaces(s, i + 2)}})
    ELSE 0

\* as\s+an? : the greedy n? takes an "n" when one follows, and nothing
\* after the group can fail, so it is never given back
FirstAltEnd(s, i) ==
    The({IF a # 0 /\ a <= Len(s) /\ ToUpper(s[a]) = "N" THEN a + 1 ELSE a :
         a \in {AsAEnd(s, i)}})

\* as\s+a\(n\)
SecondAltEnd(s, i) ==
    The({IF /\ a # 0
            /\ a + 2 <= Len(s)
            /\ s[a] = "("
            /\ ToUpper(s[a + 1]) = "N"
            /\ s[a + 2] = ")"
         THEN a + 3 ELSE 0 :
         a \in {AsAEnd(s, i)}})

\* the group (as\s+an?|as\s+a\(n\)): alternatives in order
IntroducerGroupEnd(s, i) ==
    The({IF g # 0 THEN g ELSE SecondAltEnd(s, i) : g \in {FirstAltEnd(s, i)}})

\* :?\s* from position e
ColonAndSpaces(s, e) ==
    IF e <= Len(s) /\ s[e] = ":" THEN SkipSpaces(s, e + 1) ELSE SkipSpaces(s, e)

\* the whole pattern at position i: m.end() as a 1-based position, 0 when
\* there is no match here
IntroducerEnd(s, i) ==
    IF WordBoundary(s, i)
    THEN The({IF g = 0 THEN 0
              ELSE The({ColonAndSpaces(s, e) : e \in {SkipSpaces(s, g)}}) :
              g \in {IntroducerGroupEnd(s, i)}})
    ELSE 0

\* where the leftmost match at or after i begins, 0 when there is none
NextIntroducer(s, i) ==
    LeftmostOrZero({p \in i..Len(s) : IntroducerEnd(s, p) # 0})

RECURSIVE FindIntroducers(_, _)
\* finditer from position i: the m.end() of each match, left to right
FindIntroducers(s, i) ==
    The({IF p = 0 THEN <<>>
         ELSE The({<<e>> \o FindIntroducers(s, e) : e \in {IntroducerEnd(s, p)}}) :
         p \in {NextIntroducer(s, i)}})

(***************************************************************************)
(* The clause and its items                                                *)
(***************************************************************************)
NON_COUNTY == <<"N", "O", "N", "-", "C", "O", "U", "N", "T", "Y">>

\* after_text.upper().startswith('SUFFOLK COUNTY') or ...('NON-COUNTY')
RefersToCounty(after_text) ==
    \E u \in {Upper(after_text)} :
        StartsWith(u, SUFFOLK_COUNTY) \/ StartsWith(u, NON_COUNTY)

\* a split point of re.split(r'\.\s|\.$', ...): a period followed by
\* whitespace or standing at $
PeriodAt(s, i) ==
    /\ s[i] = "."
    /\ \/ (i + 1 <= Len(s) /\ IsSpace(s[i + 1]))
       \/ AtDollar(s, i + 1)

\* re.split(r'\.\s|\.$', after_text)[0] ends before the position returned
ChunkEnd(s) ==
    The({IF p = 0 THEN Len(s) + 1 ELSE p :
         p \in {LeftmostOrZero({i \in 1..Len(s) : PeriodAt(s, i)})}})

Chunk(after_text) == SubSeq(after_text, 1, ChunkEnd(after_text) - 1)

\* "or" without the word boundaries, which would split inside "Senior":
\* C5 does not hold of it.
OrAnywhere(s, i) ==
    /\ i + 1 <= Len(s)
    /\ s[i] = "o"
    /\ s[i + 1] = "r"

\* \bor\b at position i (no re.IGNORECASE on this pattern)
OrAt(s, i) ==
    /\ i + 1 <= Len(s)
    /\ s[i] = "o"
    /\ s[i + 1] = "r"
    /\ WordBoundary(s, i)
    /\ WordBoundary(s, i + 2)

\* the width of the separator ,|\bor\b|; matching at position i, 0 when
\* none does
SeparatorAt(s, i) ==
    IF s[i] = "," THEN 1
    ELSE IF OrAt(s, i) THEN 2
    ELSE IF s[i] = ";" THEN 1
    ELSE 0

\* where the leftmost separator at or after i begins, 0 when there is none
NextSeparator(s, i) ==
    LeftmostOrZero({p \in i..Len(s) : SeparatorAt(s, p) # 0})

RECURSIVE SplitItems(_, _)
\* re.split(r',|\bor\b|;', chunk) from position i: the pieces between the
\* separators, left to right
SplitItems(s, i) ==
    The({IF p = 0 THEN <<From(s, i)>>
         ELSE <<SubSeq(s, i, p - 1)>>
                  \o The({SplitItems(s, n) : n \in {p + SeparatorAt(s, p)}}) :
         p \in {NextSeparator(s, i)}})

(***************************************************************************)
(* The per-item normalizer and the acceptance test                         *)
(***************************************************************************)
\* clean.startswith('n ') and clean[2].isupper(): clean[2] raises
\* IndexError when clean is just 'n '
FragmentIndexError(clean) == StartsWith(clean, <<"n", " ">>) /\ Len(clean) < 3

\* The fragment rule without its test for an uppercase letter: C8 does not
\* hold of it.
DropFragmentAnyCase(clean) ==
    IF StartsWith(clean, <<"n", " ">>) /\ Len(clean) >= 3
    THEN From(clean, 3)
    ELSE clean

\* if clean.startswith('n ') and clean[2].isupper(): clean = clean[2:]
DropFragment(clean) ==
    IF StartsWith(clean, <<"n", " ">>) /\ Len(clean) >= 3 /\ IsUpper(clean[3])
    THEN From(clean, 3)
    ELSE clean

\* re.sub(r'[;,]$', '', clean): a semicolon or comma standing at $
DropTrailing(clean) ==
    The({IF i = 0 THEN clean
         ELSE SubSeq(clean, 1, i - 1) \o From(clean, i + 1) :
         i \in {LeftmostOrZero({h \in 1..Len(clean) :
                                   /\ clean[h] \in {";", ","}
                                   /\ AtDollar(clean, h + 1)})}})

\* src/scrape_specs.py lines 34-36
CleanPage(item) ==
    The({Strip(c3) : c3 \in                \* .strip()
        {DropTrailing(c2) : c2 \in         \* re.sub(r'[;,]$', '', clean)
        {DropFragment(c1) : c1 \in         \* if clean.startswith('n ') ...
        {ReplaceNewlines(c0) : c0 \in      \* .replace('\n', ' ')
        {Strip(item)}}}}})                 \* item.strip()

\* src/scripts/extract_specs.py lines 45-48
CleanDoc(item) ==
    The({Strip(c2) : c2 \in                \* .strip()
        {DropTrailing(c1) : c1 \in         \* re.sub(r'[;,]$', '', clean)
        {DropFragment(c0) : c0 \in         \* if clean.startswith('n ') ...
        {Strip(item)}}}})                  \* item.strip()

Clean(variant, item) ==
    IF variant = "page" THEN CleanPage(item) ELSE CleanDoc(item)

\* whether normalizing the item raises
CleanRaises(variant, item) ==
    IF variant = "page"
    THEN \E c1 \in {ReplaceNewlines(c0) : c0 \in {Strip(item)}} :
            FragmentIndexError(c1)
    ELSE \E c0 \in {Strip(item)} : FragmentIndexError(c0)

SUFFOLK == <<"S", "U", "F", "F", "O", "L", "K">>

THREE == <<"T", "H", "R", "E", "E">>

TWO == <<"T", "W", "O">>

ONE == <<"O", "N", "E">>

YEAR == <<"Y", "E", "A", "R">>

PageDenylist == {SUFFOLK, THREE, TWO}

DocDenylist == {SUFFOLK, THREE, TWO, ONE, YEAR}

Denylist(variant) == IF variant = "page" THEN PageDenylist ELSE DocDenylist

\* An acceptance test that asks only for a non-empty item: C1 does not
\* hold of it.
AcceptedIfNonEmpty(deny, clean) == clean # <<>>

\* if clean and len(clean) > 3 and not any(x in clean.upper() for x in [...])
Accepted(deny, clean) ==
    /\ clean # <<>>
    /\ Len(clean) > 3
    /\ \A u \in {Upper(clean)} : ~ \E x \in deny : Contains(u, x)

(***************************************************************************)
(* The body of "if match:" in both functions                               *)
(***************************************************************************)
Range(f) == {f[k] : k \in DOMAIN f}

\* after_text of every introducer match
AfterTexts(promo_part) ==
    {Strip(From(promo_part, e)) : e \in Range(FindIntroducers(promo_part, 1))}

\* chunk of every match that the loop does not skip
Chunks(promo_part) ==
    {Chunk(after_text) :
        after_text \in {a \in AfterTexts(promo_part) : ~ RefersToCounty(a)}}

\* every item the inner loop visits
ItemsOfSection(promo_part) ==
    UNION {Range(SplitItems(chunk, 1)) : chunk \in Chunks(promo_part)}

\* parents, as list(set(parents)) returns them
ParentsOfSection(variant, promo_part) ==
    {clean \in {Clean(variant, item) : item \in ItemsOfSection(promo_part)} :
        Accepted(Denylist(variant), clean)}

SectionRaises(variant, promo_part) ==
    \E item \in ItemsOfSection(promo_part) : CleanRaises(variant, item)

(***************************************************************************)
(* extract_promotional_from_html and the promotional part of               *)
(* extract_spec_info                                                       *)
(***************************************************************************)
\* text = re.sub('<[^<]+?>', '', html_content)
PageText(html_content) == StripTags(html_content, 1)

\* the text the section search reads
SearchedText(variant, input) ==
    IF variant = "page" THEN PageText(input) ELSE input

\* what the function leaves once re.search has returned m
ResultOfMatch(variant, m) ==
    IF ~ m.match
    THEN [raised |-> FALSE, match |-> FALSE, promo_part |-> <<>>,
          parents |-> {}]
    ELSE IF SectionRaises(variant, m.promo_part)
    THEN [raised |-> TRUE, match |-> TRUE, promo_part |-> m.promo_part,
          parents |-> {}]
    ELSE [raised |-> FALSE, match |-> TRUE, promo_part |-> m.promo_part,
          parents |-> ParentsOfSection(variant, m.promo_part)]

\* the result of the function on one input: whether it raised, the local
\* promo_part (empty when there is no match) and the returned parents
Extract(variant, input) ==
    The({ResultOfMatch(variant, m) : m \in
        {SearchPromotional(Terminators(variant), text) : text \in
        {SearchedText(variant, input)}}})

(***************************************************************************)
(* State                                                                   *)
(***************************************************************************)
VARIABLES
    input,       \* the argument: html_content, or the full_text of the file
    called,      \* the function applied to input: "none", "page" or "doc"
    result,      \* what the call left: raised, match, promo_part, parents
    script,      \* the script that runs: "page" (run_scraper), "doc" (main)
    pc,          \* where the script is: "start", "loop", "save", "done"
    listing,     \* the hrefs of the index page, or the names in SPECS_DIR
    codes,       \* run_scraper: the spec codes to scrape
    files,       \* main: the .docx names to process
    i,           \* how many documents the loop has been through
    all_data,    \* run_scraper: the records collected
    all_specs,   \* main: the records collected for specs_data.json
    relationships, \* main: the records collected for relationships.json
    written,     \* the JSON files written, by name
    log          \* the error lines printed

extractVars == <<input, called, result>>

batchVars ==
    <<script, pc, listing, codes, files, i, all_data, all_specs,
      relationships, written, log>>

vars == <<extractVars, batchVars>>

\* the returned parents
parents == result.parents

\* match.group(1), empty when re.search found no promotional section
promo_part == result.promo_part

(***************************************************************************)
(* Input texts: concatenations of fragments                                *)
(***************************************************************************)
RECURSIVE Flatten(_)
Flatten(fs) == IF fs = <<>> THEN <<>> ELSE Head(fs) \o Flatten(Tail(fs))

MaxFrags == 4

\* free concatenations of the section header, the six markers in the
\* spellings the documents use, and one clause
SectionFragments ==
    { PROMOTIONAL,
      NECESSARY_SPECIAL,
      <<"S", "u", "f", "f", "o", "l", "k", " ", "C", "o", "u", "n", "t", "y">>,
      REVISION_DATE,
      <<"R", "2">>,
      Competitive,
      Full_Performance,
      <<" ", "a", "s", " ", "a", " ", "C", "l", "e", "r", "k", ".", " ">> }

SectionTexts ==
    {Flatten(fs) : fs \in UNION {[1..k -> SectionFragments] : k \in 1..MaxFrags}}

\* one promotional section holding one clause of up to MaxItems titles:
\* PROMOTIONAL, an introducer, then titles with a joiner between each two,
\* a period and the next section's header
MaxItems == 3

Introducer == <<" ", "a", "s", " ", "a", " ">>

ClauseTitles ==
    { <<"S", "e", "n", "i", "o", "r", " ", "C", "l", "e", "r", "k">>,
      <<"C", "l", "e", "r", "k", " ", "T", "y", "p", "i", "s", "t">>,
      <<"T", "y", "p", "i", "s", "t">>,
      <<"N", "o", "n", "-", "C", "o", "u", "n", "t", "y", " ",
        "e", "m", "p", "l", "o", "y", "e", "e">> }

ClauseJoiners ==
    { <<",", " ">>, <<" ", "o", "r", " ">>, <<";">>, <<"\n">> }

ClauseEnd == <<".", "\n">> \o NECESSARY_SPECIAL

RECURSIVE Joined(_, _)
\* titles ts with joiners js between them
Joined(ts, js) ==
    IF Len(ts) <= 1 THEN Flatten(ts)
    ELSE Head(ts) \o Head(js) \o Joined(Tail(ts), Tail(js))

ClauseOf(ts, js) == PROMOTIONAL \o Introducer \o Joined(ts, js) \o ClauseEnd

ClauseTexts ==
    UNION {{ClauseOf(ts, js) : ts \in [1..k -> ClauseTitles],
                               js \in [1..(k - 1) -> ClauseJoiners]} :
           k \in 1..MaxItems}

\* one promotional section holding one clause spelled from up to MaxTokens
\* tokens: words, the "n " fragment, separators and line breaks
MaxTokens == 4

ItemTokens ==
    { <<"n", " ">>, <<"\n">>, <<",", " ">>, <<"A", "i", "d">>, <<"e">>,
      <<"T", "w", "o">>, <<"o", "n", "e", " ">> }

ItemTexts ==
    {PROMOTIONAL \o Introducer \o Flatten(fs) \o ClauseEnd :
        fs \in UNION {[1..k -> ItemTokens] : k \in 1..MaxTokens}}

NoResult ==
    [raised |-> FALSE, match |-> FALSE, promo_part |-> <<>>, parents |-> {}]

\* no script runs: the functions are applied on their own
NoBatch ==
    /\ script = "none"
    /\ pc = "done"
    /\ listing = <<>>
    /\ codes = <<>>
    /\ files = <<>>
    /\ i = 0
    /\ all_data = <<>>
    /\ all_specs = <<>>
    /\ relationships = <<>>
    /\ written = <<>>
    /\ log = <<>>

InitExtract(texts) ==
    /\ input \in texts
    /\ called = "none"
    /\ result = NoResult
    /\ NoBatch

Init == InitExtract(SectionTexts)

(***************************************************************************)
(* Operations                                                              *)
(***************************************************************************)
\* src/scrape_specs.py: extract_promotional_from_html(html_content)
extract_promotional_from_html ==
    /\ script = "none"
    /\ called = "none"
    /\ called' = "page"
    /\ result' = Extract("page", input)
    /\ UNCHANGED <<input, batchVars>>

\* src/scripts/extract_specs.py: extract_spec_info, lines 26-50, on the
\* full_text of a loaded document
extract_spec_info ==
    /\ script = "none"
    /\ called = "none"
    /\ called' = "doc"
    /\ result' = Extract("doc", input)
    /\ UNCHANGED <<input, batchVars>>

Next == extract_promotional_from_html \/ extract_spec_info

Spec == Init /\ [][Next]_vars

InitClause == InitExtract(ClauseTexts)

SpecClause == InitClause /\ [][Next]_vars

InitItem == InitExtract(ItemTexts)

SpecItem == InitItem /\ [][Next]_vars

(***************************************************************************)
(* Title and code of a document, and the qualifications text               *)
(***************************************************************************)
\* the positions where the literal x occurs in s
Occurrences(s, x) ==
    {p \in 1..(Len(s) - Len(x) + 1) : \A k \in 1..Len(x) : s[p + k - 1] = x[k]}

AllDigits(s, p, n) ==
    /\ p >= 1
    /\ p + n - 1 <= Len(s)
    /\ \A k \in 0..(n - 1) : IsDigit(s[p + k])

spe_html == <<"s", "p", "e", ".", "h", "t", "m", "l">>

\* re.search(r'(\d{4})spe\.html', href): whether it matches
HrefMatches(href) ==
    \E p \in Occurrences(href, spe_html) : AllDigits(href, p - 4, 4)

\* code_match.group(1) of the leftmost match
CodeOfHref(href) ==
    LET p == Leftmost({q \in Occurrences(href, spe_html) :
                          AllDigits(href, q - 4, 4)})
    IN  SubSeq(href, p - 4, p - 1)

\* re.sub(r'\s{2,}\d{4}$', '', title): with the title stripped, $ is its
\* end; the match starts at the leftmost position from which two or more
\* whitespace characters and then four digits reach the end
DropTrailingCode(title) ==
    LET n == Len(title)
        starts == {p \in 1..(n - 5) :
                      /\ AllDigits(title, n - 3, 4)
                      /\ \A k \in p..(n - 4) : IsSpace(title[k])}
    IN  IF starts = {} THEN title ELSE SubSeq(title, 1, Leftmost(starts) - 1)

\* lines 74-76 of src/scrape_specs.py, from the heading's inner_text()
TitleOfHeading(heading) == Strip(DropTrailingCode(Strip(heading)))

docx == <<".", "d", "o", "c", "x">>

\* str.endswith
EndsWith(s, suffix) ==
    /\ Len(suffix) <= Len(s)
    /\ \A k \in 1..Len(suffix) : s[Len(s) - Len(suffix) + k] = suffix[k]

RECURSIVE Remove(_, _, _)
\* s[i:].replace(x, '')
Remove(s, x, p) ==
    LET hits == {q \in Occurrences(s, x) : q >= p} IN
    IF hits = {} THEN From(s, p)
    ELSE SubSeq(s, p, Leftmost(hits) - 1)
             \o Remove(s, x, Leftmost(hits) + Len(x))

\* re.match(r"(\d{4})", filename), "0000" when it does not match
CodeOfFilename(filename) ==
    IF AllDigits(filename, 1, 4) THEN SubSeq(filename, 1, 4)
    ELSE <<"0", "0", "0", "0">>

\* lines 22-24 of src/scripts/extract_specs.py
TitleOfFilename(filename) ==
    LET title == Remove(filename, docx, 1)
        seps == Occurrences(title, <<" ", "-", " ">>)
    IN  IF seps = {} THEN title ELSE From(title, Leftmost(seps) + 3)

OPEN_COMPETITIVE ==
    <<"O", "P", "E", "N", " ",
      "C", "O", "M", "P", "E", "T", "I", "T", "I", "V", "E">>

MINIMUM_QUALIFICATIONS ==
    <<"M", "I", "N", "I", "M", "U", "M", " ",
      "Q", "U", "A", "L", "I", "F", "I", "C", "A", "T", "I", "O", "N", "S">>

\* re.search(r'(?:OPEN COMPETITIVE|MINIMUM QUALIFICATIONS)(.*)', full_text,
\*           re.IGNORECASE | re.DOTALL): group(1).strip(), "" without a match
QualText(full_text) ==
    LET open == {p \in 1..Len(full_text) :
                    MatchesAtIgnoreCase(OPEN_COMPETITIVE, full_text, p)}
        minimum == {p \in 1..Len(full_text) :
                    MatchesAtIgnoreCase(MINIMUM_QUALIFICATIONS, full_text, p)}
    IN  IF open \cup minimum = {} THEN <<>>
        ELSE LET p == Leftmost(open \cup minimum)
             IN  IF p \in open
                 THEN Strip(From(full_text, p + Len(OPEN_COMPETITIVE)))
                 ELSE Strip(From(full_text, p + Len(MINIMUM_QUALIFICATIONS)))

(***************************************************************************)
(* The scripts: run_scraper (src/scrape_specs.py) and main                 *)
(* (src/scripts/extract_specs.py)                                          *)
(***************************************************************************)
MaxDocs == 3

\* hrefs of the index page: two spec links and a link that is none
Hrefs ==
    { <<"s", "p", "e", "c", "s", "/", "0", "0", "0", "9",
        "s", "p", "e", ".", "h", "t", "m", "l">>,
      <<"s", "p", "e", "c", "s", "/", "0", "0", "1", "2", "3",
        "s", "p", "e", ".", "h", "t", "m", "l">>,
      <<"s", "p", "e", "c", "s", "/", "a", "b", "o", "u", "t",
        ".", "h", "t", "m", "l">> }

\* names in SPECS_DIR: with a code, with too short a code, without the
\* " - " separator, and a file that is no .docx
Filenames ==
    { <<"0", "0", "0", "9", " ", "-", " ", "C", "L", "E", "R", "K",
        ".", "d", "o", "c", "x">>,
      <<"1", "2", " ", "-", " ", "A", "I", "D", "E", ".", "d", "o", "c", "x">>,
      <<"0", "1", "2", "3", " ", "T", "Y", "P", "I", "S", "T",
        ".", "d", "o", "c", "x">>,
      <<"n", "o", "t", "e", "s", ".", "t", "x", "t">> }

\* what a spec page may hold: its first heading and its content
Pages ==
    { [heading |-> <<"C", "L", "E", "R", "K", " ", " ", "0", "0", "0", "9">>,
       html |->
         <<"<", "b", ">", "C", "L", "E", "R", "K", " ", " ",
           "0", "0", "0", "9", "<", "/", "b", ">", "\n">>
         \o PROMOTIONAL
         \o <<"\n", "<", "p", ">", "S", "e", "r", "v", "i", "c", "e", " ",
              "a", "s", " ", "a", " ", "T", "y", "p", "i", "s", "t", ".",
              "<", "/", "p", ">", "\n">>
         \o REVISION_DATE],
      [heading |-> <<"T", "Y", "P", "I", "S", "T">>,
       html |->
         <<"<", "h", "1", ">", "T", "Y", "P", "I", "S", "T",
           "<", "/", "h", "1", ">", "\n">>
         \o MINIMUM_QUALIFICATIONS
         \o <<"\n", "N", "o", "n", "e", ".">>] }

\* what a document may hold: the text of its paragraphs joined by "\n"
Documents ==
    { MINIMUM_QUALIFICATIONS
        \o <<"\n", "N", "o", "n", "e", ".", "\n">>
        \o PROMOTIONAL
        \o <<"\n", "S", "e", "r", "v", "i", "c", "e", " ", "a", "s", " ",
             "a", " ", "T", "y", "p", "i", "s", "t", ".", "\n">>
        \o NECESSARY_SPECIAL,
      OPEN_COMPETITIVE \o <<"\n", "N", "o", "n", "e", ".">> }

Injective(f) == \A a, b \in DOMAIN f : a # b => f[a] # f[b]

SeqsUpTo(S, n) == UNION {[1..k -> S] : k \in 0..n}

\* list(set(...)): the elements once each, in an order the program does
\* not choose
Orderings(S) == {f \in [1..Cardinality(S) -> S] : Injective(f)}

InitBatch ==
    /\ input = <<>>
    /\ called = "none"
    /\ result = NoResult
    /\ script \in {"page", "doc"}
    /\ pc = "start"
    /\ listing \in IF script = "page" THEN SeqsUpTo(Hrefs, MaxDocs)
                   ELSE {f \in SeqsUpTo(Filenames, MaxDocs) : Injective(f)}
    /\ codes = <<>>
    /\ files = <<>>
    /\ i = 0
    /\ all_data = <<>>
    /\ all_specs = <<>>
    /\ relationships = <<>>
    /\ written = <<>>
    /\ log = <<>>

\* run_scraper, lines 56-67: the index page loads; codes are the unique
\* codes of the links that match
AccessIndex ==
    /\ script = "page"
    /\ pc = "start"
    /\ codes' \in Orderings({CodeOfHref(h) :
                                h \in {g \in Range(listing) : HrefMatches(g)}})
    /\ pc' = "loop"
    /\ UNCHANGED <<extractVars, script, listing, files, i, all_data,
                   all_specs, relationships, written, log>>

\* run_scraper, lines 96-97: reading the index raises
IndexFails ==
    /\ script = "page"
    /\ pc = "start"
    /\ log' = Append(log, <<"Failed to access index">>)
    /\ pc' = "save"
    /\ UNCHANGED <<extractVars, script, listing, codes, files, i, all_data,
                   all_specs, relationships, written>>

\* the record of lines 81-85
PageRecord(code, page) ==
    [title |-> TitleOfHeading(page.heading),
     code |-> code,
     parents |-> Extract("page", page.html).parents]

\* run_scraper, lines 70-91: one pass of the loop whose page loads
ScrapeSpec ==
    /\ script = "page"
    /\ pc = "loop"
    /\ i < Len(codes)
    /\ \E page \in Pages :
          /\ ~ Extract("page", page.html).raised
          /\ all_data' = Append(all_data, PageRecord(codes[i + 1], page))
    /\ i' = i + 1
    /\ UNCHANGED <<extractVars, script, pc, listing, codes, files,
                   all_specs, relationships, written, log>>

\* A loop without the inner try: the first pass that raises ends the loop
\* through the outer handler.  C7 does not hold of it.
ScrapeAborts ==
    /\ script = "page"
    /\ pc = "loop"
    /\ i < Len(codes)
    /\ log' = Append(log, <<"Error scraping", codes[i + 1]>>)
    /\ pc' = "save"
    /\ UNCHANGED <<extractVars, script, listing, codes, files, i, all_data,
                   all_specs, relationships, written>>

\* run_scraper, lines 93-94: the pass raises (the page does not load, it
\* has no heading, the extraction raises); the loop goes on
ScrapeRaises ==
    /\ script = "page"
    /\ pc = "loop"
    /\ i < Len(codes)
    /\ log' = Append(log, <<"Error scraping", codes[i + 1]>>)
    /\ i' = i + 1
    /\ UNCHANGED <<extractVars, script, pc, listing, codes, files, all_data,
                   all_specs, relationships, written>>

\* run_scraper, lines 99-104: after the loop, or after the index failed
SaveScraped ==
    /\ script = "page"
    /\ pc = "save" \/ (pc = "loop" /\ i = Len(codes))
    /\ written' = ("relationships.json" :> all_data)
    /\ pc' = "done"
    /\ UNCHANGED <<extractVars, script, listing, codes, files, i, all_data,
                   all_specs, relationships, log>>

IsDocx(f) == EndsWith(f, docx)

\* main, line 72
ListSpecs ==
    /\ script = "doc"
    /\ pc = "start"
    /\ files' = SelectSeq(listing, IsDocx)
    /\ pc' = "loop"
    /\ UNCHANGED <<extractVars, script, listing, codes, i, all_data,
                   all_specs, relationships, written, log>>

\* what extract_spec_info returns for a document that loads, lines 56-62
SpecInfo(filename, full_text) ==
    [title |-> TitleOfFilename(filename),
     code |-> CodeOfFilename(filename),
     parents |-> Extract("doc", full_text).parents,
     full_text |-> full_text,
     qual_text |-> QualText(full_text)]

\* the record of lines 79-84
SpecsDataRecord(info) ==
    [title |-> info.title,
     parents |-> info.parents,
     qual_text |-> info.qual_text,
     full_text |-> info.full_text]

\* the record of lines 85-89
RelationshipRecord(info) ==
    [title |-> info.title, code |-> info.code, parents |-> info.parents]

\* main, lines 75-89: one pass of the loop whose document loads
ProcessSpec ==
    /\ script = "doc"
    /\ pc = "loop"
    /\ i < Len(files)
    /\ \E full_text \in Documents :
          /\ ~ Extract("doc", full_text).raised
          /\ all_specs' =
                Append(all_specs,
                       SpecsDataRecord(SpecInfo(files[i + 1], full_text)))
          /\ relationships' =
                Append(relationships,
                       RelationshipRecord(SpecInfo(files[i + 1], full_text)))
    /\ i' = i + 1
    /\ UNCHANGED <<extractVars, script, pc, listing, codes, files, all_data,
                   written, log>>

\* extract_spec_info, lines 63-65, and main, line 78: the document does
\* not load (or the extraction raises), None comes back, the loop goes on
ProcessRaises ==
    /\ script = "doc"
    /\ pc = "loop"
    /\ i < Len(files)
    /\ log' = Append(log, <<"Error processing", files[i + 1]>>)
    /\ i' = i + 1
    /\ UNCHANGED <<extractVars, script, pc, listing, codes, files, all_data,
                   all_specs, relationships, written>>

\* main, lines 94-101
SaveSpecs ==
    /\ script = "doc"
    /\ pc = "loop"
    /\ i = Len(files)
    /\ written' = ("specs_data.json" :> all_specs)
                      @@ ("relationships.json" :> relationships)
    /\ pc' = "done"
    /\ UNCHANGED <<extractVars, script, listing, codes, files, i, all_data,
                   all_specs, relationships, log>>

BatchNext ==
    \/ AccessIndex
    \/ IndexFails
    \/ ScrapeSpec
    \/ ScrapeRaises
    \/ SaveScraped
    \/ ListSpecs
    \/ ProcessSpec
    \/ ProcessRaises
    \/ SaveSpecs

SpecBatch == InitBatch /\ [][BatchNext]_vars

(***************************************************************************)
(* Properties of the promotional section (specification Spec)              *)
(***************************************************************************)
\* the text the function called in this state searched
searched == SearchedText(called, input)

\* where "PROMOTIONAL" occurs in s, matched case-insensitively
PromotionalOccurrences(s) ==
    {p \in 1..Len(s) : MatchesAtIgnoreCase(PROMOTIONAL, s, p)}

\* where a marker of the set terms starts in s, after position j
MarkersAfter(terms, s, j) ==
    UNION {{p \in (j + 1)..Len(s) : AltMatchesAt(terms[k], s, p)} :
           k \in 1..Len(terms)}

\* no "PROMOTIONAL" in s, or no marker of terms anywhere after the first
SectionAbsent(terms, s) ==
    \A occ \in {PromotionalOccurrences(s)} :
        \/ occ = {}
        \/ MarkersAfter(terms, s, Leftmost(occ)) = {}

\* the text between the end of the first "PROMOTIONAL" and the marker of
\* terms that starts earliest after it; empty when the section is absent
SectionOf(terms, s) ==
    The({IF occ = {} THEN <<>>
         ELSE The({IF ms = {} THEN <<>>
                   ELSE SubSeq(s, Leftmost(occ) + Len(PROMOTIONAL),
                               Leftmost(ms) - 1) :
                   ms \in {MarkersAfter(terms, s, Leftmost(occ))}}) :
         occ \in {PromotionalOccurrences(s)}})

\* C3: when the text holds no "PROMOTIONAL", or holds one but no terminator
\* marker of the variant anywhere after the first one, the call returns an
\* empty parents collection and raises no error, in both variants.
AbsentSectionGivesNoParents ==
    (called # "none" /\ SectionAbsent(Terminators(called), searched))
        => (parents = {} /\ ~ result.raised)

TheClause == <<" ", "a", "s", " ", "a", " ", "C", "l", "e", "r", "k", ".", " ">>

\* C3 at work: the header and a clause that would name a parent, and no
\* terminator after them
HeaderAndClauseWithoutTerminator ==
    /\ called # "none"
    /\ input = PROMOTIONAL \o TheClause \o PROMOTIONAL \o TheClause
    /\ SectionAbsent(Terminators(called), searched)
    /\ parents = {}

\* C4: the section starts right after the first "PROMOTIONAL" and ends
\* right before the terminator occurrence that starts earliest after it,
\* whatever the place of its type in the pattern's list of alternatives;
\* with "REVISION DATE" before a later "SUFFOLK COUNTY" the section stops at
\* "REVISION DATE" and a clause between the two names no parent.
SectionEndsAtEarliestTerminator ==
    called # "none" =>
        \A text \in {searched} :
            /\ result.match = ~ SectionAbsent(Terminators(called), text)
            /\ promo_part = SectionOf(Terminators(called), text)

Suffolk_County ==
    <<"S", "u", "f", "f", "o", "l", "k", " ", "C", "o", "u", "n", "t", "y">>

\* C4 at work: "REVISION DATE", a clause, then "Suffolk County"
RevisionDateBeforeSuffolkCounty ==
    /\ called # "none"
    /\ input = PROMOTIONAL \o REVISION_DATE \o TheClause \o Suffolk_County
    /\ promo_part = <<>>
    /\ parents = {}

\* the one terminator set of six markers
SixTerminators ==
    << [kind |-> "lit", lit |-> NECESSARY_SPECIAL],
       [kind |-> "lit", lit |-> SUFFOLK_COUNTY],
       [kind |-> "lit", lit |-> REVISION_DATE],
       [kind |-> "rev", lit |-> <<"R">>],
       [kind |-> "lit", lit |-> Competitive],
       [kind |-> "lit", lit |-> Full_Performance] >>

\* C9: in both variants the section ends before the first occurrence of
\* any of the six markers, "Full Performance" among them, so that no text
\* after an earliest "Full Performance" names a parent.
BothVariantsEndAtAnyOfSixMarkers ==
    called # "none" =>
        \A section \in {SectionOf(SixTerminators, searched)} :
            /\ promo_part = section
            /\ parents = ParentsOfSection(called, section)

(***************************************************************************)
(* Properties of the clause and its items (specification SpecClause)       *)
(***************************************************************************)
\* C2: in both variants no returned parent begins, case-insensitively,
\* with "SUFFOLK COUNTY" or with "NON-COUNTY"; this holds for every item
\* split out of a clause, not only for the text right after the introducer.
NoParentRefersToCounty ==
    called # "none" => \A p \in parents : ~ RefersToCounty(p)

SeniorClerk == <<"S", "e", "n", "i", "o", "r", " ", "C", "l", "e", "r", "k">>

ClerkTypist == <<"C", "l", "e", "r", "k", " ", "T", "y", "p", "i", "s", "t">>

Typist == <<"T", "y", "p", "i", "s", "t">>

\* "or" as a word of its own at position p of s
StandaloneOr(s, p) ==
    /\ p + 1 <= Len(s)
    /\ s[p] = "o"
    /\ s[p + 1] = "r"
    /\ (p = 1 \/ ~ IsWord(s[p - 1]))
    /\ (p + 2 > Len(s) \/ ~ IsWord(s[p + 2]))

\* where a comma, a semicolon or a standalone "or" starts in s
SplitPoints(s) ==
    {p \in 1..Len(s) : s[p] \in {",", ";"} \/ StandaloneOr(s, p)}

\* the position after the separator that starts at p
AfterSplitPoint(s, p) == IF s[p] \in {",", ";"} THEN p + 1 ELSE p + 2

\* the pieces of s between its separators: each starts at the start of s or
\* right after a separator, ends at the end of s or right before one, and
\* has no separator inside
Pieces(s) ==
    The({{SubSeq(s, ab[1], ab[2]) :
             ab \in {x \in ({1} \cup {AfterSplitPoint(s, p) : p \in sp})
                            \X ({Len(s)} \cup {p - 1 : p \in sp}) :
                        /\ x[1] <= x[2] + 1
                        /\ \A p \in sp : p < x[1] \/ p > x[2]}} :
         sp \in {SplitPoints(s)}})

\* C5: a clause is split on every comma, every semicolon and every
\* standalone "or" (not on an "or" inside a word such as "Senior"), and each
\* piece is normalized and accepted on its own; the section whose only
\* clause is "as a Senior Clerk, Clerk Typist or Typist." yields exactly
\* {"Senior Clerk", "Clerk Typist", "Typist"}, in both variants.
ClauseSplitsOnSeparators ==
    called # "none" =>
        /\ parents =
              {clean \in
                  {Clean(called, piece) :
                      piece \in UNION {Pieces(chunk) : chunk \in Chunks(promo_part)}} :
                  Accepted(Denylist(called), clean)}
        /\ input = ClauseOf(<<SeniorClerk, ClerkTypist, Typist>>,
                            << <<",", " ">>, <<" ", "o", "r", " ">> >>)
              => parents = {SeniorClerk, ClerkTypist, Typist}

\* C5 at work: the clause of the example, three parents out of it
ThreeParentsOfTheExample ==
    /\ called # "none"
    /\ input = ClauseOf(<<SeniorClerk, ClerkTypist, Typist>>,
                        << <<",", " ">>, <<" ", "o", "r", " ">> >>)
    /\ Cardinality(parents) = 3

\* C10: in both variants an item that spans a line break has each newline
\* replaced by a space, so no returned parent contains a newline.
NoParentContainsNewline ==
    called # "none" => \A p \in parents : \A k \in 1..Len(p) : p[k] # "\n"

(***************************************************************************)
(* Properties of the normalizer and the acceptance test (specification     *)
(* SpecItem)                                                               *)
(***************************************************************************)
\* C1: in both variants every returned parent is longer than 3 characters
\* and its upper-cased form contains none of the variant's denylisted
\* tokens: SUFFOLK, THREE, TWO for pages, and also ONE, YEAR for documents.
ParentsAreLongAndNotDenylisted ==
    /\ called = "page" =>
          \A p \in parents :
              /\ Len(p) > 3
              /\ \A x \in {SUFFOLK, THREE, TWO} : ~ Contains(Upper(p), x)
    /\ called = "doc" =>
          \A p \in parents :
              /\ Len(p) > 3
              /\ \A x \in {SUFFOLK, THREE, TWO, ONE, YEAR} :
                    ~ Contains(Upper(p), x)

\* C1 at work: a page whose clause has an item that holds "Two", which is
\* dropped, and an item that holds "one", which a page keeps
PageKeepsOneAndDropsTwo ==
    /\ called = "page"
    /\ \E item \in ItemsOfSection(promo_part) :
          Contains(Upper(Clean("page", item)), TWO)
    /\ \E p \in parents : Contains(Upper(p), ONE)

\* C8: the normalizer is idempotent on its accepted outputs: applied again
\* to a returned parent it raises nothing and gives the same string.
NormalizerIsIdempotentOnParents ==
    called # "none" =>
        \A p \in parents : ~ CleanRaises(called, p) /\ Clean(called, p) = p

\* C8 at work: a returned parent that begins with the fragment "n "
ParentBeginsWithFragment ==
    /\ called # "none"
    /\ \E p \in parents : StartsWith(p, <<"n", " ">>)

(***************************************************************************)
(* Properties of the scripts (specification SpecBatch)                     *)
(***************************************************************************)
\* C6: every record of every JSON array written by either script carries
\* title, code and parents, code being a string of exactly 4 decimal
\* digits; the records of specs_data.json are among them.
EveryWrittenRecordHasTitleCodeParents ==
    \A f \in DOMAIN written :
        \A k \in DOMAIN written[f] :
            /\ {"title", "code", "parents"} \subseteq DOMAIN written[f][k]
            /\ Len(written[f][k].code) = 4
            /\ AllDigits(written[f][k].code, 1, 4)

\* the documents of the run: the codes of run_scraper, the files of main
documents == IF script = "page" THEN codes ELSE files

\* the documents whose pass raised, as the error lines name them
failed == {line[2] : line \in {l \in Range(log) : Len(l) = 2}}

\* whether the reading of the index raised
index_failed == \E k \in DOMAIN log : log[k] = <<"Failed to access index">>

\* what names the document in its record: the code of a page, the title
\* that comes from the name of a file
KeyOfDocument(d) == IF script = "page" THEN d ELSE TitleOfFilename(d)

KeyOfRecord(r) == IF script = "page" THEN r.code ELSE r.title

Succeeded(d) == d \notin failed

\* the keys of the documents whose pass did not raise, in the run's order
KeysOfSucceeded ==
    The({[k \in DOMAIN ds |-> KeyOfDocument(ds[k])] :
         ds \in {SelectSeq(documents, Succeeded)}})

KeysOf(records) == [k \in DOMAIN records |-> KeyOfRecord(records[k])]

\* C7: whichever passes of the loop raise, the run goes through every
\* document and ends by writing its output, which holds exactly one record
\* for each document whose pass did not raise and none for the others, in
\* run_scraper and in main.
BatchToleratesDocumentFailures ==
    /\ pc # "done" => ENABLED BatchNext
    /\ pc = "done" =>
          /\ index_failed \/ i = Len(documents)
          /\ "relationships.json" \in DOMAIN written
          /\ \A f \in DOMAIN written : KeysOf(written[f]) = KeysOfSucceeded
          /\ script = "doc" => "specs_data.json" \in DOMAIN written

\* C7 at work: a finished run in which a pass raised and a later pass went
\* through
FailureThenSuccess ==
    /\ pc = "done"
    /\ \E a, b \in DOMAIN documents :
          a < b /\ documents[a] \in failed /\ documents[b] \notin failed
    /\ Len(written["relationships.json"]) >= 1

====
